---- MODULE Spec2Model ----
(***************************************************************************)
(* A model of flygym/envs/nmf_mujoco.py: the NeuroMechFlyMuJoCo            *)
(* environment (construction, reset, step, render, save_video, close).     *)
(*                                                                         *)
(* Conventions of the model                                                *)
(*   - Time is exact: it is counted in ticks, TicksPerSec ticks to one     *)
(*     simulated second.  `timestep` and `curr_time` are tick counts and   *)
(*     `_eff_render_interval` is kept as the exact fraction Num / Den.     *)
(*   - `playspeed` is kept in hundredths (1.0 is 100).                     *)
(*   - Frictions are kept in 1e-4, orientations in 1e-1, angles in        *)
(*     milliradians.                                                       *)
(*   - A Python dict is a function on its keys; a missing key is a         *)
(*     KeyError.  `None` is the string "None".                             *)
(*   - An exception raised by a method ends the call: what the method      *)
(*     assigned before the raise stays, `lastErr` names the exception.     *)
(*   - The physics engine (dm_control / MuJoCo) is outside the repository: *)
(*     its model is the small deterministic engine of PhysicsStep.         *)
(***************************************************************************)
EXTENDS Integers, Sequences, FiniteSets, TLC

\* ------------------------------------------------------------------ bounds
TicksPerSec == 60   \* ticks in one simulated second
MaxSteps == 4       \* step() calls between two resets, in Spec
MaxDofs == 2        \* length of the actuated-DoF list

\* -np.inf, the value of _last_render_time before the first recorded frame
NegInf == -1

None == "None"
EmptyDict == [k \in {} |-> 0]

\* dict.update: the keys of both, the override's value where it has one
Update(d, u) ==
  [k \in (DOMAIN d) \cup (DOMAIN u) |-> IF k \in DOMAIN u THEN u[k] ELSE d[k]]

\* ------------------------------------------------- module-level dictionaries
_init_pose_lookup == [default |-> "default_pose_path", stretch |-> "stretch_pose_path"]

_default_terrain_config ==
  [flat   |-> [size |-> <<50000, 50000>>, friction |-> <<10000, 50, 1>>,
               fly_pos |-> <<0, 0, 300>>, fly_orient |-> <<0, 10, 0, 1>>],
   gapped |-> [x_range |-> <<-10000, 10000>>, y_range |-> <<-10000, 10000>>,
               friction |-> <<10000, 50, 1>>, gap_width |-> 200,
               block_width |-> 1000, gap_depth |-> 2000,
               fly_pos |-> <<0, 0, 600>>, fly_orient |-> <<0, 10, 0, 1>>],
   blocks |-> [x_range |-> <<-10000, 10000>>, y_range |-> <<-10000, 10000>>,
               friction |-> <<10000, 50, 1>>, block_size |-> 1000,
               height_range |-> <<300, 300>>, rand_seed |-> 0,
               fly_pos |-> <<0, 0, 600>>, fly_orient |-> <<0, 10, 0, 1>>],
   ball   |-> [radius |-> "Ellipsis", fly_pos |-> <<0, 0, "Ellipsis">>,
               fly_orient |-> <<0, 10, 0, "Ellipsis">>]]

_default_physics_config ==
  [joint_stiffness |-> 2500, friction |-> <<10000, 50, 1>>, gravity |-> <<0, 0, -981000>>]

_default_render_config ==
  [saved    |-> [window_size |-> <<640, 480>>, playspeed |-> 100, fps |-> 60],
   headless |-> EmptyDict]

_metadata ==
  [render_modes |-> {"headless", "viewer", "saved"},
   terrain      |-> {"flat", "gapped", "blocks", "ball"},
   control      |-> {"position", "velocity", "torque"},
   init_pose    |-> {"default", "stretch"}]

\* ------------------------------------------------------ the assets it loads
\* The joints of the articulated-body description; each has one actuator per
\* control mode, named actuator_{control}_{joint}.
ModelJoints == {"Coxa", "Tarsus1", "Tarsus2"}

Actuator(c, j) == [control |-> c, joint |-> j]
NoneActuator == Actuator(None, None)
ModelActuators == {Actuator(c, j) : c \in _metadata.control, j \in ModelJoints}

\* model.find('actuator', name): the element, or None when the model has none
Find(c, j) == IF Actuator(c, j) \in ModelActuators THEN Actuator(c, j) ELSE NoneActuator

\* 'Tarsus' in name, 'Tarsus1' in name
HasTarsus(name) == name \in {"Tarsus1", "Tarsus2"}
HasTarsus1(name) == name = "Tarsus1"

\* The pose files: joint name -> angle in degrees
PoseFile ==
  [default_pose_path |-> [Coxa |-> 30, Tarsus1 |-> -20],
   stretch_pose_path |-> [Coxa |-> 0, Tarsus1 |-> 10, Tarsus2 |-> 45]]

\* np.deg2rad, in milliradians
Deg2Rad(v) == (v * 31416) \div 1800

\* ------------------------------------------------------- the physics engine
\* mjcf.Physics.from_mjcf_model(arena): the engine's model (MjModel) as the
\* asset gives it, with the timestep of the scene.
PhysicsModel(ts) ==
  [timestep  |-> ts,
   stiffness |-> [j \in ModelJoints |-> 1000],
   damping   |-> [j \in ModelJoints |-> 0],
   gainprm   |-> [a \in ModelActuators |-> 30],
   friction  |-> <<10000, 50, 1>>,
   gravity   |-> <<0, 0, -9810>>]

\* mj_resetData: the engine's data (MjData) at its defaults
ResetData(fly_pos, fly_orient) ==
  [time           |-> 0,
   qpos           |-> [j \in ModelJoints |-> 0],
   qvel           |-> [j \in ModelJoints |-> 0],
   ctrl           |-> [a \in ModelActuators |-> 0],
   actuator_force |-> [a \in ModelActuators |-> 0],
   xpos           |-> fly_pos,
   linvel         |-> <<0, 0, 0>>,
   quat           |-> fly_orient,
   angvel         |-> <<0, 0, 0>>]

\* physics.reset(): the data back at its defaults; the model is kept
PhysicsReset(physics) ==
  [physics EXCEPT !.data = ResetData(physics.spawn_pos, physics.spawn_orient)]

\* physics.step(): one timestep of the engine.  Every actuator applies its
\* control as its force; a joint takes the velocity its actuators drive it
\* with and the position that velocity gives it in one timestep; the body
\* sinks.
PhysicsStep(physics) ==
  LET d == physics.data
      frc == [a \in ModelActuators |-> d.ctrl[a]]
      drive(j) == frc[Actuator("position", j)] + frc[Actuator("velocity", j)]
                    + frc[Actuator("torque", j)]
  IN [physics EXCEPT
        !.data = [d EXCEPT
          !.time = d.time + physics.model.timestep,
          !.actuator_force = frc,
          !.qvel = [j \in ModelJoints |-> drive(j)],
          !.qpos = [j \in ModelJoints |-> physics.model.timestep * drive(j)],
          !.linvel = <<0, 0, -1>>,
          !.xpos = <<d.xpos[1], d.xpos[2], d.xpos[3] - 1>>]]

\* A sensor element: its type and the joint or actuator it reads
Sensor(type, c, j) == [type |-> type, control |-> c, joint |-> j]

\* physics.bind(sensor).sensordata
SensorData(physics, s) ==
  CASE s.type = "jointpos"    -> physics.data.qpos[s.joint]
    [] s.type = "jointvel"    -> physics.data.qvel[s.joint]
    [] s.type = "actuatorfrc" -> physics.data.actuator_force[Actuator(s.control, s.joint)]
    [] s.type = "framepos"    -> physics.data.xpos
    [] s.type = "framelinvel" -> physics.data.linvel
    [] s.type = "framequat"   -> physics.data.quat
    [] s.type = "frameangvel" -> physics.data.angvel

\* physics.bind(actuators).ctrl = values: element i gets value i
BindCtrl(physics, acts, values) ==
  [physics EXCEPT !.data.ctrl =
     [a \in ModelActuators |->
        IF \E i \in 1..Len(acts) : acts[i] = a
          THEN values[CHOOSE i \in 1..Len(acts) : acts[i] = a]
          ELSE @[a]]]

\* R.from_quat(quat).as_euler('xyz'), to first order in the rotation
AsEuler(quat) == <<2 * quat[1], 2 * quat[2], 2 * quat[3]>>

\* physics.render(width, height): the image of the current physics state
PhysicsRender(physics, width, height) ==
  [time |-> physics.data.time, width |-> width, height |-> height]

\* ------------------------------------------------------------ construction
Range(seq) == {seq[i] : i \in 1..Len(seq)}

\* The five sensors __init__ adds for each actuated joint, in list order
JointSensors(joints) ==
  [k \in 1..(5 * Len(joints)) |->
     LET j == joints[((k - 1) \div 5) + 1]
         r == (k - 1) % 5
     IN CASE r = 0 -> Sensor("jointpos", None, j)
          [] r = 1 -> Sensor("jointvel", None, j)
          [] r = 2 -> Sensor("actuatorfrc", "position", j)
          [] r = 3 -> Sensor("actuatorfrc", "velocity", j)
          [] r = 4 -> Sensor("actuatorfrc", "torque", j)]

body_sensors ==
  <<Sensor("framepos", None, "Thorax"), Sensor("framelinvel", None, "Thorax"),
    Sensor("framequat", None, "Thorax"), Sensor("frameangvel", None, "Thorax")>>

\* self.actuators: the actuator of each listed joint for the control mode
Actuators(control, joints) == [i \in 1..Len(joints) |-> Find(control, joints[i])]

\* The pose file's angles in radians, kept for the actuated joints only
InitPose(name, joints) ==
  LET file == PoseFile[_init_pose_lookup[name]]
  IN [j \in (DOMAIN file) \cap Range(joints) |-> Deg2Rad(file[j])]

\* Lines 319-330: friction, stiffness of the actuated joints, gravity
AdHocChanges(physics, joints, physics_config) ==
  [physics EXCEPT
     !.model.friction = physics_config.friction,
     !.model.stiffness = [j \in ModelJoints |->
        IF j \in Range(joints) THEN physics_config.joint_stiffness ELSE @[j]],
     !.model.gravity = physics_config.gravity]

\* The compliance pass without its stiffness write: gain and damping only
_set_compliant_Tarsus_keeps_stiffness(physics, acts, all_joints, kp, stiff, damping) ==
  LET compliant(name) == HasTarsus(name) /\ ~HasTarsus1(name)
      p1 == [physics EXCEPT !.model.gainprm = [a \in ModelActuators |->
               IF a \in Range(acts) /\ a.control = "position" /\ compliant(a.joint)
                 THEN kp ELSE @[a]]]
      p2 == [p1 EXCEPT
               !.model.damping = [j \in ModelJoints |->
                  IF j \in all_joints /\ compliant(j) THEN damping ELSE @[j]]]
  IN PhysicsReset(p2)

_set_compliant_Tarsus(physics, acts, all_joints, kp, stiff, damping) ==
  LET compliant(name) == HasTarsus(name) /\ ~HasTarsus1(name)
      p1 == [physics EXCEPT !.model.gainprm = [a \in ModelActuators |->
               IF a \in Range(acts) /\ a.control = "position" /\ compliant(a.joint)
                 THEN kp ELSE @[a]]]
      p2 == [p1 EXCEPT
               !.model.stiffness = [j \in ModelJoints |->
                  IF j \in all_joints /\ compliant(j) THEN stiff ELSE @[j]],
               !.model.damping = [j \in ModelJoints |->
                  IF j \in all_joints /\ compliant(j) THEN damping ELSE @[j]]]
  IN PhysicsReset(p2)

\* with physics.reset_context(): the data is reset, the listed joints that the
\* pose names get their angle
_set_init_pose(physics, acts, joints, pose) ==
  LET p0 == PhysicsReset(physics)
      named == {acts[i].joint : i \in 1..Len(joints)}
  IN [p0 EXCEPT !.data.qpos = [j \in ModelJoints |->
        IF j \in named /\ j \in Range(joints) /\ j \in DOMAIN pose
          THEN pose[j] ELSE @[j]]]

\* A construction that raised: no Environment, only the directory it made
\* (output_dir.mkdir; None is no directory)
Failed(err, dirs) ==
  [status |-> "failed", err |-> err, mkdir |-> dirs,
   render_config |-> EmptyDict, terrain_config |-> EmptyDict,
   physics_config |-> EmptyDict, init_pose |-> EmptyDict,
   actuators |-> <<>>, joint_sensors |-> <<>>,
   eff |-> [num |-> 0, den |-> 0], physics |-> None]

\* __init__
Construct(a) ==
  LET dirs == a.output_dir
      rc == Update(_default_render_config[a.render_mode], a.render_config)
      tc == Update(_default_terrain_config[a.terrain], a.terrain_config)
      pc == Update(_default_physics_config, a.physics_config)
      pose == InitPose(a.init_pose, a.actuated_joints)
      acts == Actuators(a.control, a.actuated_joints)
      p0 == [model |-> PhysicsModel(a.timestep),
             data |-> ResetData(tc.fly_pos, tc.fly_orient),
             spawn_pos |-> tc.fly_pos, spawn_orient |-> tc.fly_orient]
      p1 == AdHocChanges(p0, a.actuated_joints, pc)
      p2 == _set_compliant_Tarsus(p1, acts, ModelJoints, 5, 0, 100)
      p3 == _set_init_pose(p2, acts, a.actuated_joints, pose)
  IN IF a.render_mode \notin DOMAIN _default_render_config THEN Failed("KeyError", None)
     ELSE IF a.terrain \notin DOMAIN _default_terrain_config THEN Failed("KeyError", dirs)
     ELSE IF a.init_pose \notin _metadata.init_pose THEN Failed("ValueError", dirs)
     ELSE IF a.terrain = "ball" THEN Failed("NotImplementedError", dirs)
     ELSE IF NoneActuator \in Range(acts) THEN Failed("AttributeError", dirs)
     ELSE [status |-> "ready", err |-> None, mkdir |-> dirs,
           render_config |-> rc, terrain_config |-> tc, physics_config |-> pc,
           init_pose |-> pose, actuators |-> acts,
           joint_sensors |-> JointSensors(a.actuated_joints),
           eff |-> IF a.render_mode # "headless"
                     THEN [num |-> rc.playspeed * TicksPerSec, den |-> 100 * rc.fps]
                     ELSE [num |-> 0, den |-> 0],
           physics |-> p3]

\* -------------------------------------------------------------------- state
VARIABLES
  args,                  \* the arguments __init__ was called with
  status,                \* "ready", or "failed" when __init__ raised
  ctor_err,              \* the exception __init__ raised, or None
  render_config, terrain_config, physics_config,
  init_pose, actuators, joint_sensors,
  _eff_render_interval,  \* [num, den]: num / den ticks
  physics,               \* [model, data, spawn_pos, spawn_orient]
  curr_time, _last_render_time, _frames,
  last,                  \* the last call: [op, err, warned, mkdir, action, ret],
                         \* and (dirty) whether a reset had something to undo
  nsteps,                \* step() calls since construction or the last reset
  phase                  \* the caller's place in its loop ("free": any call)

conf == <<args, status, ctor_err, render_config, terrain_config, physics_config,
          init_pose, actuators, joint_sensors, _eff_render_interval>>
vars == <<conf, physics, curr_time, _last_render_time, _frames, last, nsteps, phase>>

render_mode == args.render_mode
actuated_joints == args.actuated_joints
timestep == args.timestep
output_dir == args.output_dir
control == args.control

\* What a call did besides changing the Environment: the exception it raised,
\* whether it logged a warning, the directory it made, the action it was
\* given, and what it returned (an observation) or wrote (a video file)
Called(op, err, warned, mkdir, action, ret) ==
  [op |-> op, err |-> err, warned |-> warned, mkdir |-> mkdir, action |-> action,
   ret |-> ret, dirty |-> FALSE]
Returned(op, ret) == Called(op, None, FALSE, None, <<>>, ret)

\* Whether a reset() finds steps taken, frames recorded and the engine moved
Dirty(clock, frames, data) ==
  clock # 0 /\ frames # <<>> /\ (\E a \in ModelActuators : data.ctrl[a] # 0)
Nothing == [kind |-> "nothing"]
Video(path, fps, frames) ==
  [kind |-> "video", path |-> path, fps |-> fps, frames |-> frames]

\* _get_observation with four sensors to a joint
_get_observation_stride4(phys, sensors, joints) ==
  LET sensordata == [k \in 1..Len(sensors) |-> SensorData(phys, sensors[k])]
      base_idx(i) == (i - 1) * 4
      cart_pos == SensorData(phys, body_sensors[1])
      cart_vel == SensorData(phys, body_sensors[2])
      quat == SensorData(phys, body_sensors[3])
      euler == AsEuler(quat)
      ang_pos == <<-euler[1], euler[2], euler[3]>>
      ang_vel == SensorData(phys, body_sensors[4])
  IN [kind |-> "observation",
      joints |->
        <<[i \in 1..Len(joints) |-> sensordata[base_idx(i) + 1]],
          [i \in 1..Len(joints) |-> sensordata[base_idx(i) + 2]],
          [i \in 1..Len(joints) |->
             [sum |-> sensordata[base_idx(i) + 3] + sensordata[base_idx(i) + 4]
                        + sensordata[base_idx(i) + 5],
              exp10 |-> -9]]>>,
      fly |-> <<cart_pos, cart_vel, ang_pos, ang_vel>>]

_get_observation(phys, sensors, joints) ==
  LET sensordata == [k \in 1..Len(sensors) |-> SensorData(phys, sensors[k])]
      base_idx(i) == (i - 1) * 5
      cart_pos == SensorData(phys, body_sensors[1])
      cart_vel == SensorData(phys, body_sensors[2])
      quat == SensorData(phys, body_sensors[3])
      euler == AsEuler(quat)
      ang_pos == <<-euler[1], euler[2], euler[3]>>
      ang_vel == SensorData(phys, body_sensors[4])
  IN [kind |-> "observation",
      joints |->
        <<[i \in 1..Len(joints) |-> sensordata[base_idx(i) + 1]],
          [i \in 1..Len(joints) |-> sensordata[base_idx(i) + 2]],
          \* the sum of the three forces, times 1e-9
          [i \in 1..Len(joints) |->
             [sum |-> sensordata[base_idx(i) + 3] + sensordata[base_idx(i) + 4]
                        + sensordata[base_idx(i) + 5],
              exp10 |-> -9]]>>,
      fly |-> <<cart_pos, cart_vel, ang_pos, ang_vel>>]

_get_info == EmptyDict

\* ----------------------------------------------------------- the arguments
Injective(seq) == \A i, k \in 1..Len(seq) : seq[i] = seq[k] => i = k
JointLists ==
  UNION {{seq \in [1..n -> ModelJoints] : Injective(seq)} : n \in 0..MaxDofs}

Timesteps == {1, 2}
ActionValues == {0, 1}

LifecycleArgs ==
  [render_mode : {"headless", "saved"},
   render_config : {EmptyDict, [fps |-> 20]},
   actuated_joints : JointLists,
   timestep : Timesteps,
   output_dir : {None, "out"},
   terrain : {"flat"},
   terrain_config : {EmptyDict},
   physics_config : {EmptyDict},
   control : {"position"},
   init_pose : {"default", "stretch"}]

InitWith(a, ph) ==
  LET made == Construct(a)
  IN /\ args = a
     /\ status = made.status
     /\ ctor_err = made.err
     /\ render_config = made.render_config
     /\ terrain_config = made.terrain_config
     /\ physics_config = made.physics_config
     /\ init_pose = made.init_pose
     /\ actuators = made.actuators
     /\ joint_sensors = made.joint_sensors
     /\ _eff_render_interval = made.eff
     /\ physics = made.physics
     /\ curr_time = 0
     /\ _last_render_time = NegInf
     /\ _frames = <<>>
     /\ last = Called("__init__", made.err, FALSE, made.mkdir, <<>>, Nothing)
     /\ nsteps = 0
     /\ phase = ph

Init == \E a \in LifecycleArgs : InitWith(a, "free")

\* ------------------------------------------------------------------ actions
\* reset() without line 390
reset_keeps_pose ==
  /\ status = "ready"
  /\ physics' = PhysicsReset(physics)
  /\ curr_time' = 0
  /\ _frames' = <<>>
  /\ _last_render_time' = NegInf
  /\ nsteps' = 0
  /\ last' = [Returned("reset",
                 _get_observation(physics', joint_sensors, actuated_joints))
               EXCEPT !.dirty = Dirty(curr_time, _frames, physics.data)]
  /\ UNCHANGED conf

\* reset() without line 389
reset_keeps_clock ==
  /\ status = "ready"
  /\ physics' = _set_init_pose(PhysicsReset(physics), actuators, actuated_joints,
                               init_pose)
  /\ _frames' = <<>>
  /\ _last_render_time' = NegInf
  /\ nsteps' = 0
  /\ last' = [Returned("reset",
                 _get_observation(physics', joint_sensors, actuated_joints))
               EXCEPT !.dirty = Dirty(curr_time, _frames, physics.data)]
  /\ UNCHANGED <<conf, curr_time>>

reset ==
  /\ status = "ready"
  /\ physics' = _set_init_pose(PhysicsReset(physics), actuators, actuated_joints,
                               init_pose)
  /\ curr_time' = 0
  /\ _frames' = <<>>
  /\ _last_render_time' = NegInf
  /\ nsteps' = 0
  /\ last' = [Returned("reset",
                 _get_observation(physics', joint_sensors, actuated_joints))
               EXCEPT !.dirty = Dirty(curr_time, _frames, physics.data)]
  /\ UNCHANGED conf

step(action) ==
  /\ status = "ready"
  /\ physics' = PhysicsStep(BindCtrl(physics, actuators, action))
  /\ curr_time' = curr_time + timestep
  /\ nsteps' = nsteps + 1
  /\ last' = Called("step", None, FALSE, None, action,
                    _get_observation(physics', joint_sensors, actuated_joints))
  /\ UNCHANGED <<conf, _last_render_time, _frames>>

\* The gate with <= for <
TooEarlyOrJustInTime ==
  /\ _last_render_time # NegInf
  /\ curr_time * _eff_render_interval.den
       <= _last_render_time * _eff_render_interval.den + _eff_render_interval.num

\* curr_time < _last_render_time + _eff_render_interval, -inf being below all
TooEarly ==
  /\ _last_render_time # NegInf
  /\ curr_time * _eff_render_interval.den
       < _last_render_time * _eff_render_interval.den + _eff_render_interval.num

render ==
  /\ status = "ready"
  /\ IF render_mode = "headless" THEN
       /\ last' = Returned("render", Nothing)
       /\ UNCHANGED <<_frames, _last_render_time>>
     ELSE IF TooEarly THEN
       /\ last' = Returned("render", Nothing)
       /\ UNCHANGED <<_frames, _last_render_time>>
     ELSE IF render_mode = "saved" THEN
       /\ _frames' = Append(_frames,
            PhysicsRender(physics, render_config.window_size[1],
                          render_config.window_size[2]))
       /\ _last_render_time' = curr_time
       /\ last' = Returned("render", Nothing)
     ELSE
       /\ last' = Called("render", "NotImplementedError", FALSE, None, <<>>, Nothing)
       /\ UNCHANGED <<_frames, _last_render_time>>
  /\ UNCHANGED <<conf, physics, curr_time, nsteps>>

\* save_video that empties the buffer once the file is written
SaveVideoToDrains(path, op) ==
  /\ last' = IF "fps" \in DOMAIN render_config
               THEN Called(op, None, render_mode # "saved", path.parent, <<>>,
                           Video(path, render_config.fps, _frames))
               ELSE Called(op, "KeyError", render_mode # "saved", path.parent, <<>>,
                           Nothing)
  /\ _frames' = IF "fps" \in DOMAIN render_config THEN <<>> ELSE _frames
  /\ UNCHANGED <<conf, physics, curr_time, _last_render_time, nsteps>>

\* The body of save_video(path), called as `op`
SaveVideoTo(path, op) ==
  /\ last' = IF "fps" \in DOMAIN render_config
               THEN Called(op, None, render_mode # "saved", path.parent, <<>>,
                           Video(path, render_config.fps, _frames))
               ELSE Called(op, "KeyError", render_mode # "saved", path.parent, <<>>,
                           Nothing)
  /\ UNCHANGED <<conf, physics, curr_time, _last_render_time, _frames, nsteps>>

SavePaths == {[parent |-> "videos", name |-> "run.mp4"]}

save_video(path) ==
  /\ status = "ready"
  /\ SaveVideoTo(path, "save_video")

close ==
  /\ status = "ready"
  /\ IF render_mode = "saved" /\ output_dir # None
       THEN SaveVideoTo([parent |-> output_dir, name |-> "video.mp4"], "close")
       ELSE /\ last' = Returned("close", Nothing)
            /\ UNCHANGED <<conf, physics, curr_time, _last_render_time, _frames,
                           nsteps>>

Actions == [1..Len(actuated_joints) -> ActionValues]

\* A caller that may make any call at any time
Free == phase = "free" /\ UNCHANGED phase
Reset == Free /\ reset
Step == Free /\ nsteps < MaxSteps /\ \E action \in Actions : step(action)
Render == Free /\ render
SaveVideo == Free /\ \E path \in SavePaths : save_video(path)
Close == Free /\ close

Next == Reset \/ Step \/ Render \/ SaveVideo \/ Close

Spec == Init /\ [][Next]_vars

\* ------------------------------------------- construction with any arguments
\* Every name __init__ is given, declared or not, and overrides with and
\* without an option of their own; the Environment is then used for the first
\* time.
CtorArgs ==
  [render_mode : {"headless", "viewer", "saved", "window"},
   render_config : {EmptyDict, [fps |-> 20], [antialias |-> 1]},
   actuated_joints : JointLists,
   timestep : {1},
   output_dir : {None, "out"},
   terrain : {"flat", "gapped", "blocks", "ball", "slope"},
   terrain_config : {EmptyDict, [slope |-> 1]},
   physics_config : {EmptyDict, [joint_stiffness |-> 100], [viscosity |-> 1]},
   control : {"position", "velocity", "torque", "impedance"},
   init_pose : {"default", "stretch", "tripod"}]

CtorInit == \E a \in CtorArgs : InitWith(a, "first use")

FirstUse == phase = "first use" /\ UNCHANGED phase
FirstReset == FirstUse /\ last.op = "__init__" /\ reset
FirstRender == FirstUse /\ last.op \in {"__init__", "reset"} /\ render
FirstClose == FirstUse /\ last.op # "close" /\ close

CtorNext == FirstReset \/ FirstRender \/ FirstClose

SpecCtor == CtorInit /\ [][CtorNext]_vars

\* ----------------------------------------------- the caller of one second
\* reset(), then step() and render() in turn for one simulated second, in
\* recording mode at playback speed 1.0, with a timestep no longer than the
\* frame interval (render() is called at least once in every interval)
LoopFps == {12, 15, 20, 60}
LoopTimesteps == {1, 2, 3, 4}

LoopArgs ==
  {a \in [render_mode : {"saved"},
          render_config : {[fps |-> f] : f \in LoopFps},
          actuated_joints : {<<>>, <<"Coxa">>},
          timestep : LoopTimesteps,
          output_dir : {None},
          terrain : {"flat"},
          terrain_config : {EmptyDict},
          physics_config : {EmptyDict},
          control : {"position"},
          init_pose : {"default"}] :
     a.timestep * a.render_config.fps <= TicksPerSec}

LoopInit == \E a \in LoopArgs : InitWith(a, "reset")

LoopReset == phase = "reset" /\ reset /\ phase' = "step"
LoopStep ==
  /\ phase = "step"
  /\ step([i \in 1..Len(actuated_joints) |-> 0])
  /\ phase' = "render"
LoopRender ==
  /\ phase = "render"
  /\ render
  /\ phase' = IF curr_time + timestep <= TicksPerSec THEN "step" ELSE "done"

LoopNext == LoopReset \/ LoopStep \/ LoopRender

SpecLoop == LoopInit /\ [][LoopNext]_vars

\* ------------------------------------------------------------------- claims
playspeed == render_config.playspeed
fps == render_config.fps

\* C1: the clock is the number of step() calls since the last reset (or
\* construction) times the timestep, whatever render(), save_video() and
\* close() calls came in between; step() adds exactly one timestep, reset()
\* sets the clock to zero, no other call changes it.
C1_Clock ==
  /\ [](status = "ready" => curr_time = nsteps * timestep)
  /\ [][/\ last'.op = "step" => curr_time' = curr_time + timestep
        /\ last'.op = "reset" => curr_time' = 0
        /\ last'.op \in {"render", "save_video", "close"} => curr_time' = curr_time]_vars

\* Two steps after a reset, with a frame recorded and a save in between
C1_Witness ==
  /\ status = "ready"
  /\ nsteps = 2
  /\ curr_time = 2 * timestep
  /\ Len(_frames) >= 1
  /\ last.op = "close"
  /\ last.ret.kind = "video"

\* C5: save_video(path) outside recording mode logs a warning and does not
\* fail: it makes the destination directory, writes the frame buffer as it
\* is, and ends without an exception.
C5_SaveOutsideRecordingCompletes ==
  (status = "ready" /\ last.op = "save_video" /\ render_mode # "saved") =>
     /\ last.warned
     /\ last.mkdir \in {path.parent : path \in SavePaths}
     /\ last.err = None
     /\ last.ret.kind = "video"
     /\ last.ret.frames = _frames

\* C7 as stated: after save_video() or close() has written the video in
\* recording mode, the frame buffer is empty.
C7_Drained ==
  (status = "ready" /\ render_mode = "saved" /\ last.op \in {"save_video", "close"}
     /\ last.err = None) => _frames = <<>>

\* C7, amended: save_video() and close() leave the frame buffer as it is and
\* write all of it, so a later save_video() or close() writes the same
\* frames again; only reset() empties the buffer.
C7_SaveKeepsFrames ==
  /\ [][last'.op \in {"save_video", "close"} => _frames' = _frames]_vars
  /\ []((status = "ready" /\ last.op \in {"save_video", "close"}
           /\ last.ret.kind = "video") => last.ret.frames = _frames)
  /\ [][(_frames # <<>> /\ _frames' = <<>>) => last'.op = "reset"]_vars

\* A save in recording mode that wrote two frames and left them in the buffer
C7_Witness ==
  /\ status = "ready"
  /\ render_mode = "saved"
  /\ last.op = "save_video"
  /\ last.ret.kind = "video"
  /\ Len(last.ret.frames) = 2
  /\ _frames = last.ret.frames

\* C8: after reset(), whatever came before, the clock is zero, the frame buffer
\* is empty, the render gate is cleared, the engine's data is at its defaults
\* with the initial pose applied (all as right after construction), and the
\* observation returned is the one of the state right after construction.
C8_ResetBaseline ==
  (status = "ready" /\ last.op = "reset") =>
     /\ curr_time = 0
     /\ _frames = <<>>
     /\ _last_render_time = NegInf
     /\ physics = Construct(args).physics
     /\ \A j \in ModelJoints :
          physics.data.qpos[j] =
            IF j \in Range(actuated_joints) /\ j \in DOMAIN init_pose
              THEN init_pose[j] ELSE 0
     /\ \A a \in ModelActuators : physics.data.ctrl[a] = 0
     /\ last.ret = _get_observation(Construct(args).physics, joint_sensors,
                                    actuated_joints)

\* A reset that found steps taken, controls set and frames recorded, with a
\* joint the pose sets
C8_Witness ==
  /\ status = "ready"
  /\ last.op = "reset"
  /\ last.dirty
  /\ \E j \in Range(actuated_joints) : j \in DOMAIN init_pose /\ init_pose[j] # 0

\* C9: the i-th actuator is the control-mode actuator of the i-th listed
\* joint, so step() writes action['joints'][i] to it; the sensors at
\* positions 5i..5i+4 are that joint's position, velocity and three force
\* sensors, and column i of the 'joints' observation is that joint's position,
\* velocity and the sum of its three actuator forces; there is one column
\* per listed joint.
C9_SameOrdering ==
  status = "ready" =>
    /\ Len(actuators) = Len(actuated_joints)
    /\ Len(joint_sensors) = 5 * Len(actuated_joints)
    /\ \A i \in 1..Len(actuated_joints) :
         LET j == actuated_joints[i]
             force(c) == physics.data.actuator_force[Actuator(c, j)]
         IN /\ actuators[i] = Actuator(control, j)
            /\ \A k \in 1..5 : joint_sensors[5 * (i - 1) + k].joint = j
            /\ [k \in 1..5 |-> joint_sensors[5 * (i - 1) + k].type] =
                 <<"jointpos", "jointvel", "actuatorfrc", "actuatorfrc", "actuatorfrc">>
            /\ last.op = "step" => physics.data.ctrl[Actuator(control, j)] = last.action[i]
            /\ last.op \in {"step", "reset"} =>
                 /\ last.ret.joints[1][i] = physics.data.qpos[j]
                 /\ last.ret.joints[2][i] = physics.data.qvel[j]
                 /\ last.ret.joints[3][i].sum =
                      force("position") + force("velocity") + force("torque")
    /\ last.op \in {"step", "reset"} =>
         \A r \in 1..3 : Len(last.ret.joints[r]) = Len(actuated_joints)

\* A step with a one-hot action on the second of two joints listed in an
\* order of their own
C9_Witness ==
  /\ status = "ready"
  /\ last.op = "step"
  /\ actuated_joints = <<"Tarsus2", "Coxa">>
  /\ last.action = <<0, 1>>
  /\ last.ret.joints[2] = <<0, 1>>

\* The render interval has passed since the last recorded frame
IntervalPassed ==
  \/ _last_render_time = NegInf
  \/ curr_time * 100 * fps >= _last_render_time * 100 * fps + playspeed * TicksPerSec

\* C10: in recording mode render() appends exactly one frame (the image of
\* the current state) and sets the marker to the clock if and only if
\* clock >= marker + playspeed / fps; otherwise, and always in headless mode,
\* it leaves buffer and marker; it never changes the clock.  So a render()
\* right after construction or reset records, two frames that follow each
\* other in the buffer are at least one interval apart, and step() changes
\* neither buffer nor marker.
C10_RenderRule ==
  /\ [][last'.op = "render" =>
          /\ curr_time' = curr_time
          /\ IF render_mode = "saved" /\ IntervalPassed
               THEN /\ Len(_frames') = Len(_frames) + 1
                    /\ SubSeq(_frames', 1, Len(_frames)) = _frames
                    /\ _frames'[Len(_frames')].time = curr_time
                    /\ _last_render_time' = curr_time
               ELSE UNCHANGED <<_frames, _last_render_time>>]_vars
  /\ [][(last'.op = "render" /\ last.op \in {"__init__", "reset"}
           /\ render_mode = "saved") => Len(_frames') = 1]_vars
  /\ []((status = "ready" /\ render_mode = "saved") =>
          \A i \in 1..(Len(_frames) - 1) :
             (_frames[i + 1].time - _frames[i].time) * 100 * fps
                >= playspeed * TicksPerSec)
  /\ [][last'.op = "step" => UNCHANGED <<_frames, _last_render_time>>]_vars

\* Two frames recorded, then a render() that came too early and recorded none
C10_Witness ==
  /\ status = "ready"
  /\ render_mode = "saved"
  /\ last.op = "render"
  /\ Len(_frames) = 2
  /\ curr_time > _last_render_time
  /\ _frames[2].time = _last_render_time

\* C2: in recording mode at playback speed 1.0 and frame rate F, with any
\* timestep, render() after every step() over one second from a reset records
\* F frames, give or take one.
C2_FramesPerSecond ==
  (phase = "done" /\ playspeed = 100) =>
     (Len(_frames) - fps \in {-1, 0, 1})

\* The frame interval 1 / F is a whole number of timesteps
WholeStepsPerFrame == \E m \in 1..TicksPerSec : m * timestep * fps = TicksPerSec

\* What render() records in that second: the interval restarts at the clock
\* of each recorded frame, so there is one frame every ceil(interval /
\* timestep) steps; that is F frames when the interval is a whole number of
\* timesteps and fewer when it is not, never more than F + 1.
FramesInOneSecond ==
  (phase = "done" /\ playspeed = 100) =>
     LET perFrame == CHOOSE m \in 1..(TicksPerSec + 1) :
                       /\ m * timestep * fps >= TicksPerSec
                       /\ (m - 1) * timestep * fps < TicksPerSec
     IN /\ WholeStepsPerFrame => Len(_frames) = fps
        /\ Len(_frames) = 1 + ((nsteps - 1) \div perFrame)
        /\ Len(_frames) <= fps + 1

\* C3: a render mode, terrain, control mode or init pose outside its declared
\* set makes construction fail, whatever the other arguments.
C3_UnknownNamesFatal ==
  (\/ args.render_mode \notin _metadata.render_modes
   \/ args.terrain \notin _metadata.terrain
   \/ args.control \notin _metadata.control
   \/ args.init_pose \notin _metadata.init_pose) => status = "failed"

\* C4: with a declared render mode other than 'headless' and 'saved',
\* construction succeeds, and render() is what fails, with
\* NotImplementedError and the frame buffer as it was.
C4_ViewerFailsAtRender ==
  (args.render_mode \in _metadata.render_modes \ {"headless", "saved"}
     /\ args.terrain \in {"flat", "gapped", "blocks"}
     /\ args.control \in _metadata.control
     /\ args.init_pose \in _metadata.init_pose) =>
       /\ status = "ready"
       /\ last.op = "render" => (last.err = "NotImplementedError" /\ _frames = <<>>)

\* C6: an override with an option that the variant's default set does not
\* have makes construction fail, so a constructed Environment's bundles have
\* exactly the options of their default sets.
C6_UnknownOptionsRejected ==
  /\ (\/ ~(DOMAIN args.render_config \subseteq
             (IF args.render_mode \in DOMAIN _default_render_config
                THEN DOMAIN _default_render_config[args.render_mode] ELSE {}))
      \/ ~(DOMAIN args.terrain_config \subseteq
             (IF args.terrain \in DOMAIN _default_terrain_config
                THEN DOMAIN _default_terrain_config[args.terrain] ELSE {}))
      \/ ~(DOMAIN args.physics_config \subseteq DOMAIN _default_physics_config))
       => status = "failed"
  /\ status = "ready" =>
       /\ DOMAIN render_config = DOMAIN _default_render_config[args.render_mode]
       /\ DOMAIN terrain_config = DOMAIN _default_terrain_config[args.terrain]
       /\ DOMAIN physics_config = DOMAIN _default_physics_config

\* A joint of the compliance pass: named Tarsus but not Tarsus1
CompliantTarsus(j) == HasTarsus(j) /\ ~HasTarsus1(j)

\* C11: once construction has finished, every actuated joint has the
\* configured joint_stiffness of the physics configuration.
C11_ActuatedStiffness ==
  status = "ready" =>
    \A j \in Range(actuated_joints) :
      physics.model.stiffness[j] = physics_config.joint_stiffness

\* C11, amended: once construction has finished, every actuated joint that
\* the compliance pass does not cover has the configured joint_stiffness, and
\* every joint named Tarsus but not Tarsus1, actuated or not, has stiffness 0
\* and damping 100, because the compliance pass runs after the override.
C11_StiffnessExceptCompliantTarsus ==
  status = "ready" =>
    /\ \A j \in Range(actuated_joints) :
         ~CompliantTarsus(j) =>
           physics.model.stiffness[j] = physics_config.joint_stiffness
    /\ \A j \in ModelJoints :
         CompliantTarsus(j) =>
           /\ physics.model.stiffness[j] = 0
           /\ physics.model.damping[j] = 100

\* A constructed Environment with an overridden joint_stiffness whose
\* actuated list has a compliant Tarsus joint next to Tarsus1, which the pass
\* leaves alone
C11_Witness ==
  /\ status = "ready"
  /\ last.op = "__init__"
  /\ args.physics_config = [joint_stiffness |-> 100]
  /\ \E j \in Range(actuated_joints) :
       CompliantTarsus(j) /\ physics.model.stiffness[j] = 0
  /\ \E j \in Range(actuated_joints) :
       /\ HasTarsus1(j)
       /\ physics.model.stiffness[j] = 100

====
